---- MODULE Spec2Model ----
(***************************************************************************)
(* Model of the Agilow bug-report backend: the in-memory session store of  *)
(* main.py, one conversation turn of agents/bug_agent.py, and the          *)
(* completion hand-off of api/bug_report_handler.py.                       *)
(*                                                                         *)
(* Every endpoint is an `async def` without an await point, so one request *)
(* runs to completion on the event loop: one request is one action.        *)
(*                                                                         *)
(* Text is modelled as a sequence of characters (one-character strings),   *)
(* so that strip(), startswith() and the brace search act on it.  A JSON   *)
(* value is a record [kind, val]: kind "str" carries its characters,       *)
(* "null" and "false" are falsy, "true" and "num" (a non-zero number) are  *)
(* truthy, "obj" carries a function from keys to JSON values and "list" a  *)
(* sequence.                                                               *)
(***************************************************************************)
EXTENDS Integers, Sequences, FiniteSets, TLC

\* ---------------------------------------------------------------- bounds
\* number of schema keys the merge inputs range over
NumKeys == 2
\* stored conversation histories are cut off at this length (guards)
MaxHist == 5
\* dispatcher invocations counted per session life (guards)
MaxDispatch == 2

\* longest list of follow-up questions the capability returns
MaxQuestions == 2

\* ---------------------------------------------------------------- text
RECURSIVE LStrip(_)
LStrip(s) == IF s = <<>> THEN s
             ELSE IF Head(s) = " " THEN LStrip(Tail(s)) ELSE s

RECURSIVE RStrip(_)
RStrip(s) == IF s = <<>> THEN s
             ELSE IF s[Len(s)] = " " THEN RStrip(SubSeq(s, 1, Len(s) - 1)) ELSE s

\* str.strip()
Strip(s) == RStrip(LStrip(s))

\* str.startswith(p)
StartsWith(s, p) == Len(s) >= Len(p) /\ SubSeq(s, 1, Len(p)) = p

\* str.endswith(p)
EndsWith(s, p) == Len(s) >= Len(p) /\ SubSeq(s, Len(s) - Len(p) + 1, Len(s)) = p

\* ---------------------------------------------------------------- JSON values
JStr(s) == [kind |-> "str", val |-> s]
JNull == [kind |-> "null", val |-> <<>>]
JNum == [kind |-> "num", val |-> <<>>]

\* Python truthiness of a decoded JSON value
Truthy(v) == CASE v.kind \in {"str", "list"} -> v.val # <<>>
               [] v.kind = "obj" -> DOMAIN v.val # {}
               [] v.kind \in {"null", "false"} -> FALSE
               [] OTHER -> TRUE

\* `value and value.strip()` raises AttributeError on a truthy non-string
StripRaises(v) == Truthy(v) /\ v.kind # "str"

\* `value and value.strip()` as a condition, for a value that does not raise
NonBlank(v) == v.kind = "str" /\ Strip(v.val) # <<>>

EmptyDict == [k \in {} |-> JNull]

\* dict.get(key, default)
Get(d, k, default) == IF k \in DOMAIN d THEN d[k] ELSE default

\* ---------------------------------------------------------------- merge
\* the mutant drops the non-empty test: every incoming value overwrites
MergeOverwriteAll(collected_info, bug_report_data) ==
  [k \in DOMAIN collected_info \cup DOMAIN bug_report_data |->
     IF k \in DOMAIN bug_report_data THEN bug_report_data[k] ELSE collected_info[k]]

\* the mutant accumulates: a non-blank incoming text is appended to the text
\* the record already holds
MergeAppend(collected_info, bug_report_data) ==
  [k \in DOMAIN collected_info \cup {j \in DOMAIN bug_report_data : NonBlank(bug_report_data[j])} |->
     IF k \in DOMAIN bug_report_data /\ NonBlank(bug_report_data[k])
     THEN IF k \in DOMAIN collected_info /\ collected_info[k].kind = "str"
          THEN JStr(collected_info[k].val \o bug_report_data[k].val)
          ELSE bug_report_data[k]
     ELSE collected_info[k]]

\* updated_collected_info[key] = value
SetItem(d, key, value) == [k \in DOMAIN d \cup {key} |-> IF k = key THEN value ELSE d[k]]

\* for key, value in bug_report_data.items(): a value is stored when it is
\* not empty after strip()
RECURSIVE MergeItems(_, _, _)
MergeItems(updated_collected_info, bug_report_data, keys) ==
  IF keys = {} THEN updated_collected_info
  ELSE LET key == CHOOSE k \in keys : TRUE
           value == bug_report_data[key]
       IN MergeItems(IF NonBlank(value) THEN SetItem(updated_collected_info, key, value)
                     ELSE updated_collected_info,
                     bug_report_data, keys \ {key})

\* updated_collected_info = {**collected_info}, then the loop (defined when
\* no incoming value raises)
Merge(collected_info, bug_report_data) ==
  MergeItems(collected_info, bug_report_data, DOMAIN bug_report_data)

\* the loop raises as soon as it meets a truthy value without strip()
MergeRaises(bug_report_data) == \E k \in DOMAIN bug_report_data : StripRaises(bug_report_data[k])

\* the record a turn returns for a parsed bug_report_data: the merge, or the
\* record it was given when the merge raises (the outer except)
MergedRecord(collected_info, bug_report_data) ==
  IF MergeRaises(bug_report_data) THEN collected_info
  ELSE Merge(collected_info, bug_report_data)

\* ---------------------------------------------------------------- the reply text
\* str.find(c): the first position of c, 0 when absent (Python's -1)
Find(s, c) == IF \E i \in 1..Len(s) : s[i] = c
              THEN CHOOSE i \in 1..Len(s) : s[i] = c /\ \A j \in 1..(i - 1) : s[j] # c
              ELSE 0

\* str.rfind(c): the last position of c, 0 when absent
RFind(s, c) == IF \E i \in 1..Len(s) : s[i] = c
               THEN CHOOSE i \in 1..Len(s) : s[i] = c /\ \A j \in (i + 1)..Len(s) : s[j] # c
               ELSE 0

\* A reply is a sequence of tokens: "FENCE" (three backquotes) and "json", "{" and
\* "}", " " (whitespace), "x" (prose without braces), "null" (a JSON literal)
\* and body tokens, each standing for the members of one JSON object.
JObj(d) == [kind |-> "obj", val |-> d]
JList(q) == [kind |-> "list", val |-> q]
JTrue == [kind |-> "true", val |-> <<>>]
JFalse == [kind |-> "false", val |-> <<>>]

\* the JSON objects the body tokens encode
Bodies ==
  [b \in {"B_ask", "B_done", "B_blank", "B_num", "B_nodata", "B_noq", "B_more"} |->
    CASE b = "B_ask" ->
           [k \in {"user_response", "bug_report_data", "is_complete", "questions_to_ask"} |->
              CASE k = "user_response" -> JStr(<<"r">>)
                [] k = "bug_report_data" -> JObj([f \in {"title"} |-> JStr(<<"a">>)])
                [] k = "is_complete" -> JFalse
                [] OTHER -> JList(<< <<"w">> >>)]
      [] b = "B_done" ->
           [k \in {"user_response", "bug_report_data", "is_complete"} |->
              CASE k = "user_response" -> JStr(<<"r">>)
                [] k = "bug_report_data" -> JObj([f \in {"description"} |-> JStr(<<"b">>)])
                [] OTHER -> JTrue]
      [] b = "B_blank" ->
           [k \in {"user_response", "bug_report_data", "is_complete", "questions_to_ask"} |->
              CASE k = "user_response" -> JStr(<<"r">>)
                [] k = "bug_report_data" ->
                     JObj([f \in {"title", "severity"} |->
                            IF f = "title" THEN JStr(<<" ">>) ELSE JNull])
                [] k = "is_complete" -> JFalse
                [] OTHER -> JList(<<>>)]
      [] b = "B_num" ->
           [k \in {"user_response", "bug_report_data"} |->
              IF k = "user_response" THEN JStr(<<"r">>)
              ELSE JObj([f \in {"title"} |-> JNum])]
      [] b = "B_nodata" ->
           [k \in {"user_response", "bug_report_data"} |->
              IF k = "user_response" THEN JStr(<<"r">>) ELSE JNull]
      [] b = "B_noq" ->
           [k \in {"user_response", "questions_to_ask"} |->
              IF k = "user_response" THEN JStr(<<"r">>) ELSE JNum]
      [] OTHER ->
           [k \in {"user_response", "bug_report_data", "is_complete", "questions_to_ask"} |->
              CASE k = "user_response" -> JStr(<<"r">>)
                [] k = "bug_report_data" -> JObj([f \in {"title"} |-> JStr(<<"b">>)])
                [] k = "is_complete" -> JFalse
                [] OTHER -> JList(<< <<"Q", "2", ":", "w">> >>)]]

BodyTokens == DOMAIN Bodies

\* strip(), then remove a leading fence with json, a leading fence and a trailing fence
StripFences(response_text) ==
  LET c0 == Strip(response_text)
      c1 == IF StartsWith(c0, <<"FENCE", "json">>) THEN SubSeq(c0, 3, Len(c0)) ELSE c0
      c2 == IF StartsWith(c1, <<"FENCE">>) THEN SubSeq(c1, 2, Len(c1)) ELSE c1
  IN IF EndsWith(c2, <<"FENCE">>) THEN SubSeq(c2, 1, Len(c2) - 1) ELSE c2

\* the substring from the first "{" to the last "}", when both exist in order
ExtractObject(cleaned_response) ==
  LET start_idx == Find(cleaned_response, "{")
      end_idx == RFind(cleaned_response, "}")
  IN IF start_idx # 0 /\ end_idx # 0 /\ end_idx > start_idx
     THEN SubSeq(cleaned_response, start_idx, end_idx)
     ELSE cleaned_response

\* JSON whitespace between tokens is insignificant
RECURSIVE Squeeze(_)
Squeeze(s) == IF s = <<>> THEN s
              ELSE IF Head(s) = " " THEN Squeeze(Tail(s)) ELSE <<Head(s)>> \o Squeeze(Tail(s))

\* json.loads: an object, another JSON value, or JSONDecodeError
JsonLoads(text) ==
  LET t == Squeeze(text)
  IN CASE t = <<"{", "}">> -> [ok |-> TRUE, value |-> JObj(EmptyDict)]
       [] Len(t) = 3 /\ t[1] = "{" /\ t[3] = "}" /\ t[2] \in BodyTokens ->
            [ok |-> TRUE, value |-> JObj(Bodies[t[2]])]
       [] t = <<"null">> -> [ok |-> TRUE, value |-> JNull]
       [] OTHER -> [ok |-> FALSE, value |-> JNull]

ParseReply(response_text) == JsonLoads(ExtractObject(StripFences(response_text)))

\* ---------------------------------------------------------------- question numbering
Digit(i) == <<"1", "2", "3", "4", "5", "6", "7", "8", "9">>[i]

\* one question of the enumerate(questions_to_ask, 1) loop
FormatQuestion(i, question) ==
  LET question_text == Strip(question)
      prefix == <<"Q", Digit(i), ":">>
  IN IF StartsWith(question_text, prefix) THEN question_text
     ELSE IF StartsWith(question_text, <<"Q">>) /\ Find(question_text, ":") # 0
     THEN prefix \o <<" ">> \o
          Strip(SubSeq(question_text, Find(question_text, ":") + 1, Len(question_text)))
     ELSE prefix \o <<" ">> \o question_text

FormatQuestions(questions_to_ask) ==
  [i \in 1..Len(questions_to_ask) |-> FormatQuestion(i, questions_to_ask[i])]

\* ---------------------------------------------------------------- required fields
\* the required fields of _get_missing_fields, in the order of its dict
RequiredFields == <<"title", "description", "steps_to_reproduce", "expected_behavior",
                    "actual_behavior">>

\* the display name of each required field
DisplayName ==
  [f \in {RequiredFields[i] : i \in 1..Len(RequiredFields)} |->
     CASE f = "title" -> "Title/Summary"
       [] f = "description" -> "Description"
       [] f = "steps_to_reproduce" -> "Steps to Reproduce"
       [] f = "expected_behavior" -> "Expected Behavior"
       [] f = "actual_behavior" -> "Actual Behavior"]

\* the mutant forgets the strip(): whitespace counts as a value
FieldMissingNoStrip(value) == ~Truthy(value)

\* if not value or not str(value).strip()
FieldMissing(value) ==
  ~Truthy(value) \/ (value.kind = "str" /\ Strip(value.val) = <<>>)

\* the loop over required_fields.items(), from field i on
RECURSIVE MissingFrom(_, _)
MissingFrom(collected_info, i) ==
  IF i > Len(RequiredFields) THEN <<>>
  ELSE LET field == RequiredFields[i]
           value == Get(collected_info, field, JStr(<<>>))
       IN (IF FieldMissing(value) THEN <<DisplayName[field]>> ELSE <<>>)
            \o MissingFrom(collected_info, i + 1)

_get_missing_fields(collected_info) == MissingFrom(collected_info, 1)

\* ---------------------------------------------------------------- one turn
REPHRASE == <<"I'm having trouble processing that. Could you please rephrase?">>
APOLOGY == <<"I apologize, but I'm having trouble processing your request right now. Could you please try again?">>

\* the number of assistant messages of the history
QuestionsAskedCount(conversation_history) ==
  Cardinality({i \in 1..Len(conversation_history) : conversation_history[i].role = "assistant"})

\* the mutant returns an empty record in place of the one it was given
SoftFailDropsRecord(reply, collected_info, with_error) ==
  [raised |-> FALSE, user_response |-> reply, bug_report_data |-> EmptyDict,
   is_complete |-> JFalse, questions_to_ask |-> <<>>, error |-> with_error]

\* the mutant leaves the failure reason out of the result
SoftFailNoError(reply, collected_info, with_error) ==
  [raised |-> FALSE, user_response |-> reply, bug_report_data |-> collected_info,
   is_complete |-> JFalse, questions_to_ask |-> <<>>, error |-> FALSE]

\* the result of the soft-fail paths
SoftFail(reply, collected_info, with_error) ==
  [raised |-> FALSE, user_response |-> reply, bug_report_data |-> collected_info,
   is_complete |-> JFalse, questions_to_ask |-> <<>>, error |-> with_error]

\* the parsed payload raises before the result is built: a value that is not
\* an object, bug_report_data without items(), a value without strip(), or
\* questions_to_ask that cannot be enumerated
PayloadRaises(value) ==
  \/ value.kind # "obj"
  \/ /\ value.kind = "obj"
     /\ LET data == Get(value.val, "bug_report_data", JObj(EmptyDict))
            questions == Get(value.val, "questions_to_ask", JList(<<>>))
        IN \/ data.kind # "obj"
           \/ data.kind = "obj" /\ MergeRaises(data.val)
           \/ questions.kind # "list"

\* capability: [kind |-> "raise"] when the call fails, or [kind |-> "text",
\* text |-> the reply]; client is FALSE when no client was passed
generate_bug_report_conversation(conversation_history, collected_info, capability, client) ==
  IF ~client
  THEN [raised |-> TRUE, user_response |-> <<>>, bug_report_data |-> collected_info,
        is_complete |-> JFalse, questions_to_ask |-> <<>>, error |-> FALSE]
  ELSE IF capability.kind = "raise" THEN SoftFail(APOLOGY, collected_info, TRUE)
  ELSE LET parsed == ParseReply(capability.text)
       IN IF ~parsed.ok THEN SoftFail(REPHRASE, collected_info, FALSE)
          ELSE IF PayloadRaises(parsed.value) THEN SoftFail(APOLOGY, collected_info, TRUE)
          ELSE LET d == parsed.value.val
               IN [raised |-> FALSE,
                   user_response |-> Get(d, "user_response", JStr(<<>>)).val,
                   bug_report_data |->
                     Merge(collected_info, Get(d, "bug_report_data", JObj(EmptyDict)).val),
                   is_complete |-> Get(d, "is_complete", JFalse),
                   questions_to_ask |->
                     FormatQuestions(Get(d, "questions_to_ask", JList(<<>>)).val),
                   error |-> FALSE]

\* ---------------------------------------------------------------- archival
\* the mutant gives up at the first upload that fails: the attachments after
\* it, in the order transcript, logs, recording, get no entry
UploadStopsAtFirstFailure(transcription, console_logs, screen_recording, uploaded, file_ok) ==
  LET order == <<"transcription", "console_logs", "screen_recording">>
      supplied == {a \in {"transcription", "console_logs", "screen_recording"} :
                     \/ a = "transcription" /\ transcription # <<>>
                     \/ a = "console_logs" /\ console_logs # <<>>
                     \/ a = "screen_recording" /\ screen_recording # <<>>
                          /\ (screen_recording = <<"path">> => file_ok)}
      reached == {order[i] : i \in {j \in 1..3 :
                     \A k \in 1..(j - 1) : order[k] \in supplied => order[k] \in uploaded}}
  IN [a \in supplied \cap reached |-> IF a \in uploaded THEN <<"s3", a>> ELSE <<>>]

\* upload_bug_report_attachments: every supplied attachment is uploaded on its
\* own; uploaded is the set of attachments whose put_object succeeds, and
\* file_ok says whether a recording given as a path can be read.  A recording
\* is <<>> (none), <<"data">> (base64) or <<"path">> (a file path).
upload_bug_report_attachments(transcription, console_logs, screen_recording, uploaded, file_ok) ==
  LET supplied == {a \in {"transcription", "console_logs", "screen_recording"} :
                     \/ a = "transcription" /\ transcription # <<>>
                     \/ a = "console_logs" /\ console_logs # <<>>
                     \/ a = "screen_recording" /\ screen_recording # <<>>
                          /\ (screen_recording = <<"path">> => file_ok)}
  IN [a \in supplied |-> IF a \in uploaded THEN <<"s3", a>> ELSE <<>>]

\* ---------------------------------------------------------------- ticketing
UNDEFINED == <<"undefined">>
NoCreds == [api_key |-> <<>>, base_url |-> <<>>, project_key |-> <<>>, email |-> <<>>]

\* one credential of set_jira_credentials: the parameter when usable, else
\* the environment variable (None and "" are both the empty text)
PickCredential(param, env_value) ==
  IF param # <<>> /\ param # UNDEFINED /\ Strip(param) # <<>> THEN param ELSE env_value

\* the module globals after set_jira_credentials
set_jira_credentials(credentials, env) ==
  [api_key |-> PickCredential(credentials.api_key, env.api_key),
   base_url |-> PickCredential(credentials.base_url, env.base_url),
   project_key |-> PickCredential(credentials.project_key, env.project_key),
   email |-> PickCredential(credentials.email, env.email)]

\* the text _get_jira_auth_headers encodes: email:key, or the key alone
AuthString(globals) ==
  IF globals.email # <<>> /\ globals.api_key # <<>>
  THEN globals.email \o <<":">> \o globals.api_key
  ELSE globals.api_key

\* _get_jira_auth_headers returns None: no email and no colon in the key
NoAuthHeaders(globals) ==
  ~(globals.email # <<>> /\ globals.api_key # <<>>)
  /\ (globals.api_key = <<>> \/ Find(globals.api_key, ":") = 0)

\* auth_string.encode('ascii') raises UnicodeEncodeError outside any try
EncodeRaises(globals) ==
  ~NoAuthHeaders(globals) /\ \E i \in 1..Len(AuthString(globals)) : AuthString(globals)[i] = "é"

\* create_issue: None without credentials, headers or a 201 reply
create_issue(globals, remote) ==
  IF globals.api_key = <<>> \/ globals.base_url = <<>> \/ globals.project_key = <<>> THEN "None"
  ELSE IF NoAuthHeaders(globals) THEN "None"
  ELSE IF remote = "created" THEN "issue" ELSE "None"

\* create_issue raises: the credentials are complete and the encoding fails
create_issue_raises(globals) ==
  /\ globals.api_key # <<>> /\ globals.base_url # <<>> /\ globals.project_key # <<>>
  /\ EncodeRaises(globals)

\* ---------------------------------------------------------------- priority
LowerCase == <<"a", "b", "c", "d", "e", "f", "g", "h", "i", "j", "k", "l", "m",
               "n", "o", "p", "q", "r", "s", "t", "u", "v", "w", "x", "y", "z">>
UpperCase == <<"A", "B", "C", "D", "E", "F", "G", "H", "I", "J", "K", "L", "M",
               "N", "O", "P", "Q", "R", "S", "T", "U", "V", "W", "X", "Y", "Z">>

\* str.lower(), character by character
LowerChar(c) ==
  IF \E i \in 1..Len(UpperCase) : UpperCase[i] = c
  THEN LowerCase[CHOOSE i \in 1..Len(UpperCase) : UpperCase[i] = c]
  ELSE c

Lower(s) == [i \in 1..Len(s) |-> LowerChar(s[i])]

\* the keys of the mapping of _map_severity_to_priority
CRITICAL == <<"c", "r", "i", "t", "i", "c", "a", "l">>
HIGH == <<"h", "i", "g", "h">>
MEDIUM == <<"m", "e", "d", "i", "u", "m">>
LOW == <<"l", "o", "w">>
LOWEST == <<"l", "o", "w", "e", "s", "t">>

SeverityNames == {CRITICAL, HIGH, MEDIUM, LOW, LOWEST}

mapping ==
  [n \in SeverityNames |->
     CASE n = CRITICAL -> "Highest"
       [] n = HIGH -> "High"
       [] n = MEDIUM -> "Medium"
       [] n = LOW -> "Low"
       [] n = LOWEST -> "Lowest"]

\* `severity.lower() if severity else 'medium'` raises on a truthy value that is
\* no text; the priority is then the name of the exception
_map_severity_to_priority(severity) ==
  IF StripRaises(severity) THEN "AttributeError"
  ELSE LET severity_lower == IF Truthy(severity) THEN Lower(severity.val) ELSE MEDIUM
       IN IF severity_lower \in SeverityNames THEN mapping[severity_lower] ELSE "Medium"

\* the issue create_bug_report_ticket asks for: summary, type and priority
IssueData(bug_report_data) ==
  [task |-> Get(bug_report_data, "title", JStr(<<"Bug Report">>)),
   issue_type |-> Get(bug_report_data, "issue_type", JStr(<<"Bug">>)),
   priority |-> _map_severity_to_priority(
                  Get(bug_report_data, "severity", JStr(<<"M">> \o Tail(MEDIUM))))]

\* create_bug_report_ticket: the ticket result, given the globals it has set
create_bug_report_ticket(bug_report_data, globals, remote) ==
  IF create_issue(globals, remote) = "issue"
  THEN [success |-> TRUE, error |-> <<>>]
  ELSE [success |-> FALSE, error |-> <<"Failed to create Jira ticket">>]

\* ---------------------------------------------------------------- the dispatcher
NoTicket == [success |-> FALSE, error |-> <<"no ticket">>]

\* the mutant opens the ticket whatever the credentials: without them the
\* ticket step raises
ProcessRequiresCredentials(bug_report_data, transcript, console_logs, screen_recording, jira_credentials, has_credentials, env, globals, ext) ==
  LET s3_urls == upload_bug_report_attachments(transcript, console_logs, screen_recording,
                                               ext.uploaded, ext.file_ok)
      set == set_jira_credentials(jira_credentials, env)
  IN IF ~has_credentials \/ create_issue_raises(set)
     THEN [raised |-> TRUE, s3_urls |-> s3_urls, has_ticket |-> FALSE,
           jira_ticket |-> NoTicket, globals |-> globals]
     ELSE [raised |-> FALSE, s3_urls |-> s3_urls, has_ticket |-> TRUE,
           jira_ticket |-> create_bug_report_ticket(bug_report_data, set, ext.remote),
           globals |-> set]

\* the mutant sets the module's credentials once: a later dispatch finds them
\* set and opens its ticket with them
ProcessKeepsGlobals(bug_report_data, transcript, console_logs, screen_recording, jira_credentials, has_credentials, env, globals, ext) ==
  LET s3_urls == upload_bug_report_attachments(transcript, console_logs, screen_recording,
                                               ext.uploaded, ext.file_ok)
      set == IF globals.api_key # <<>> THEN globals
             ELSE set_jira_credentials(jira_credentials, env)
  IN IF ~has_credentials
     THEN [raised |-> FALSE, s3_urls |-> s3_urls, has_ticket |-> FALSE,
           jira_ticket |-> NoTicket, globals |-> globals]
     ELSE IF create_issue_raises(set)
     THEN [raised |-> TRUE, s3_urls |-> s3_urls, has_ticket |-> FALSE,
           jira_ticket |-> NoTicket, globals |-> set]
     ELSE [raised |-> FALSE, s3_urls |-> s3_urls, has_ticket |-> TRUE,
           jira_ticket |-> create_bug_report_ticket(bug_report_data, set, ext.remote),
           globals |-> set]

\* process_bug_report: archive, then open a ticket when credentials are given.
\* ext is what the collaborators do: the uploads that succeed, whether the
\* recording file can be read, and the remote answer to the issue request.
process_bug_report(bug_report_data, transcript, console_logs, screen_recording, jira_credentials, has_credentials, env, globals, ext) ==
  LET s3_urls == upload_bug_report_attachments(transcript, console_logs, screen_recording,
                                               ext.uploaded, ext.file_ok)
      set == set_jira_credentials(jira_credentials, env)
  IN IF ~has_credentials
     THEN [raised |-> FALSE, s3_urls |-> s3_urls, has_ticket |-> FALSE,
           jira_ticket |-> NoTicket, globals |-> globals]
     ELSE IF create_issue_raises(set)
     THEN [raised |-> TRUE, s3_urls |-> s3_urls, has_ticket |-> FALSE,
           jira_ticket |-> NoTicket, globals |-> set]
     ELSE [raised |-> FALSE, s3_urls |-> s3_urls, has_ticket |-> TRUE,
           jira_ticket |-> create_bug_report_ticket(bug_report_data, set, ext.remote),
           globals |-> set]

\* ---------------------------------------------------------------- the session store
Sessions == {"s1", "s2"}
OneSession == {"s1"}

VARIABLES
  conversation_states,  \* main.py: session_id -> state, the sessions in the store
  openai_key,           \* OPENAI_API_KEY is set in the process environment
  jira_env,             \* the JIRA_* variables of the process environment
  jira_globals,         \* api/jira_handler.py: the module-level JIRA_* credentials
  dispatch_count,       \* history: process_bug_report calls in the session's current life
  registered,           \* history: the session ids that were ever put in the store
  transcript_turns,     \* history: the session's answered transcript turns that were not
                        \* complete, since its history was started
  last,                 \* history: the last request and what it returned
  h                     \* the inputs and result of a function applied on its own

vars == <<conversation_states, openai_key, jira_env, jira_globals, dispatch_count, registered,
          transcript_turns,
          last, h>>

NewState == [collected_info |-> EmptyDict, conversation_history |-> <<>>, is_complete |-> JFalse]

\* the state the handler works on: the stored one, or a new one it stores
StateOf(store, session_id) ==
  IF session_id \in DOMAIN store THEN store[session_id] ELSE NewState

Put(store, session_id, state) ==
  [s \in DOMAIN store \cup {session_id} |-> IF s = session_id THEN state ELSE store[s]]

\* the mutant leaves the session in the store
DelKeeps(store, session_id) == store

\* del conversation_states[session_id]
Del(store, session_id) == [s \in DOMAIN store \ {session_id} |-> store[s]]

\* ---------------------------------------------------------------- the request
UserMessages(messages) == SelectSeq(messages, LAMBDA m : m.sender = "user")

\* "user" -> "user", anything else -> "assistant"
ToHistory(messages) ==
  [i \in 1..Len(messages) |->
     [role |-> IF messages[i].sender = "user" THEN "user" ELSE "assistant",
      content |-> messages[i].text]]

\* the utterance of the turn: the last user message, or the transcript, stripped
Transcript(request) ==
  IF request.messages # <<>>
  THEN LET user_messages == UserMessages(request.messages)
       IN IF user_messages = <<>> THEN <<>>
          ELSE Strip(user_messages[Len(user_messages)].text)
  ELSE Strip(request.transcript)

\* the mutant tests the utterance before it is stripped
RejectedBeforeStrip(request) ==
  \/ request.messages # <<>> /\ UserMessages(request.messages) = <<>>
  \/ request.messages = <<>> /\ request.transcript = <<>>

\* the three HTTP 400 exits, taken before the store is touched
Rejected(request) ==
  \/ request.messages # <<>> /\ UserMessages(request.messages) = <<>>
  \/ request.messages = <<>> /\ request.transcript = <<>>
  \/ Transcript(request) = <<>>

\* the mutant starts the history of a transcript request anew
HistoryForCallReplaces(request, state) ==
  IF request.messages # <<>> THEN ToHistory(request.messages)
  ELSE <<[role |-> "user", content |-> Transcript(request)]>>

\* the history handed to the agent: the messages of the request, or the stored
\* history with the utterance appended in place
HistoryForCall(request, state) ==
  IF request.messages # <<>> THEN ToHistory(request.messages)
  ELSE Append(state.conversation_history, [role |-> "user", content |-> Transcript(request)])

HasRole(history, role) == \E i \in 1..Len(history) : history[i].role = role

\* the mutant drops the test for an earlier user message
PrePassRunsAfterAssistant(request, client) ==
  /\ request.messages # <<>>
  /\ Len(request.messages) > 2
  /\ LET previous_history == SubSeq(ToHistory(request.messages), 1, Len(request.messages) - 1)
     IN HasRole(previous_history, "assistant") /\ client

\* the extra agent call on a messages request with more than two messages
PrePassRuns(request, client) ==
  /\ request.messages # <<>>
  /\ Len(request.messages) > 2
  /\ LET previous_history == SubSeq(ToHistory(request.messages), 1, Len(request.messages) - 1)
     IN HasRole(previous_history, "assistant") /\ client /\ HasRole(previous_history, "user")

\* for key, value in extracted_info.items(): store the non-empty values
MergeExtracted(collected_info, extracted_info) ==
  [k \in DOMAIN collected_info \cup {j \in DOMAIN extracted_info : NonBlank(extracted_info[j])} |->
     IF k \in DOMAIN extracted_info /\ NonBlank(extracted_info[k])
     THEN extracted_info[k] ELSE collected_info[k]]

\* collected_info when the main agent call is made
CollectedForCall(request, state, capability, client) ==
  IF PrePassRuns(request, client)
  THEN LET previous_history == SubSeq(ToHistory(request.messages), 1, Len(request.messages) - 1)
           temp_agent_response == generate_bug_report_conversation(
                                    previous_history, state.collected_info, capability, TRUE)
       IN MergeExtracted(state.collected_info, temp_agent_response.bug_report_data)
  ELSE state.collected_info

\* the state when the client check is made: created, history updated, the
\* record as the extra call left it
StateForCall(request, state, capability, client) ==
  [collected_info |-> CollectedForCall(request, state, capability, client),
   conversation_history |-> HistoryForCall(request, state),
   is_complete |-> state.is_complete]

\* the state after the agent's answer is written back
AfterTurn(before, agent_response) ==
  [collected_info |-> agent_response.bug_report_data,
   conversation_history |-> Append(before.conversation_history,
                              [role |-> "assistant", content |-> agent_response.user_response]),
   is_complete |-> agent_response.is_complete]

\* "Role: content" per message, joined
FullTranscript(conversation_history) ==
  [i \in 1..Len(conversation_history) |->
     <<IF conversation_history[i].role = "user" THEN "User" ELSE "Assistant",
       conversation_history[i].content>>]

\* the credentials of the request, each falling back to the environment
ResolveCredentials(request, env) ==
  [api_key |-> IF request.jira.api_key # <<>> THEN request.jira.api_key ELSE env.api_key,
   base_url |-> IF request.jira.base_url # <<>> THEN request.jira.base_url ELSE env.base_url,
   project_key |-> IF request.jira.project_key # <<>> THEN request.jira.project_key
                   ELSE env.project_key,
   email |-> IF request.jira.email # <<>> THEN request.jira.email ELSE env.email]

HasCredentials(c) == c.api_key # <<>> /\ c.base_url # <<>> /\ c.project_key # <<>>

\* how the capability's answer was taken
ReplyClass(capability) ==
  IF capability.kind = "raise" THEN "raise"
  ELSE IF ~ParseReply(capability.text).ok THEN "decode_error"
  ELSE IF PayloadRaises(ParseReply(capability.text).value) THEN "not_payload"
  ELSE "ok"

\* ---------------------------------------------------------------- inputs
Msg(sender, text) == [sender |-> sender, text |-> text]

\* the messages arrays of the requests: none, no user message, a blank user
\* message, a first message, a conversation, three assistant messages first
MessageArrays ==
  { <<>>,
    <<Msg("ai", <<"r">>)>>,
    <<Msg("user", <<" ">>)>>,
    <<Msg("user", <<"h">>)>>,
    <<Msg("user", <<"h">>), Msg("ai", <<"r">>), Msg("user", <<"h">>)>>,
    <<Msg("ai", <<"r">>), Msg("ai", <<"r">>), Msg("ai", <<"r">>), Msg("user", <<"h">>)>> }

\* the transcripts of the legacy requests: none, blank, an utterance
Transcripts == { <<>>, <<" ">>, <<" ", "h">> }

GoodCreds == [api_key |-> <<"k">>, base_url |-> <<"u">>, project_key |-> <<"p">>,
              email |-> <<"e">>]
NonAsciiCreds == [api_key |-> <<"é">>, base_url |-> <<"u">>, project_key |-> <<"p">>,
                  email |-> <<"e">>]

\* what a request carries besides the conversation
Extras ==
  { [jira |-> NoCreds, console_logs |-> <<"l">>, screen_recording |-> <<"data">>],
    [jira |-> GoodCreds, console_logs |-> <<"l">>, screen_recording |-> <<"path">>],
    [jira |-> NonAsciiCreds, console_logs |-> <<>>, screen_recording |-> <<>>] }

\* a messages array, or else a transcript
Conversations ==
  { [messages |-> m, transcript |-> <<>>] : m \in MessageArrays \ {<<>>} }
    \cup { [messages |-> <<>>, transcript |-> t] : t \in Transcripts }

Request(conversation, extras) ==
  [messages |-> conversation.messages, transcript |-> conversation.transcript,
   jira |-> extras.jira, console_logs |-> extras.console_logs,
   screen_recording |-> extras.screen_recording]

\* the request of a turn that stops before the dispatch, which alone reads
\* the credentials and attachments
Plain(conversation) ==
  Request(conversation, [jira |-> NoCreds, console_logs |-> <<>>, screen_recording |-> <<>>])

NoCall == [kind |-> "none", text |-> <<>>]
Raise == [kind |-> "raise", text |-> <<>>]
Text(t) == [kind |-> "text", text |-> t]

\* what the extraction capability does on one call: the call fails, prose,
\* JSON that is no object, a fenced object, an object within commentary
Capabilities ==
  { Raise,
    Text(<<"x">>),
    Text(<<"null">>),
    Text(<<"FENCE", "json", "{", "B_ask", "}", "FENCE">>),
    Text(<<"x", "{", "B_done", "}", "x">>) }

\* what the archival and ticketing collaborators do on one dispatch
Collaborators ==
  { [uploaded |-> {"transcription", "console_logs", "screen_recording"}, file_ok |-> TRUE,
     remote |-> "created"],
    [uploaded |-> {"console_logs"}, file_ok |-> FALSE, remote |-> "rejected"] }

\* ---------------------------------------------------------------- history variables
NoAgent == [raised |-> FALSE, user_response |-> <<>>, bug_report_data |-> EmptyDict,
            is_complete |-> JFalse, questions_to_ask |-> <<>>, error |-> FALSE]
NoReport == [raised |-> FALSE, s3_urls |-> EmptyDict, has_ticket |-> FALSE,
             jira_ticket |-> NoTicket]

\* what a dispatch was given: the request's credentials and attachments,
\* whether credentials were resolved, and what the collaborators did
NoDispatch == [has_credentials |-> FALSE, jira |-> NoCreds, console_logs |-> <<>>,
               screen_recording |-> <<>>, uploaded |-> {}, file_ok |-> FALSE,
               remote |-> "none"]

DispatchGiven(request, env, collaborators) ==
  [has_credentials |-> HasCredentials(ResolveCredentials(request, env)),
   jira |-> request.jira, console_logs |-> request.console_logs,
   screen_recording |-> request.screen_recording, uploaded |-> collaborators.uploaded,
   file_ok |-> collaborators.file_ok, remote |-> collaborators.remote]

\* the record and transcript process_bug_report is called with
NoReceived == [bug_report_data |-> EmptyDict, conversation_transcript |-> <<>>]

Received(after) ==
  [bug_report_data |-> after.collected_info,
   conversation_transcript |-> FullTranscript(after.conversation_history)]

\* the JSON response of a turn: its keys, the record, the flag, and on a
\* completing turn the archival locations and the ticket result
NoResponse == [keys |-> {}, collected_info |-> EmptyDict, bug_report_complete |-> JFalse,
               s3_urls |-> EmptyDict, has_ticket |-> FALSE, jira_ticket |-> NoTicket]

TurnResponse(after) ==
  [NoResponse EXCEPT !.keys = {"success", "user_response", "message", "bug_report_complete",
                               "collected_info"},
                     !.collected_info = after.collected_info,
                     !.bug_report_complete = after.is_complete]

CompleteResponse(after, process_result) ==
  [TurnResponse(after) EXCEPT !.keys = @ \cup {"jira_ticket", "s3_urls", "status_message"},
                              !.s3_urls = process_result.s3_urls,
                              !.has_ticket = process_result.has_ticket,
                              !.jira_ticket = process_result.jira_ticket]

\* the conversation of a request that reached the store, as it was received
NoConversation == [messages |-> <<>>, transcript |-> <<>>]

Given(request) == [messages |-> request.messages, transcript |-> request.transcript]

\* the conversation carries no utterance: neither messages nor a transcript,
\* or an utterance (the transcript, or the text of the last user message)
\* that is empty once trimmed
EmptyInput(conversation) ==
  \/ conversation.messages = <<>> /\ Strip(conversation.transcript) = <<>>
  \/ /\ conversation.messages # <<>>
     /\ \A i \in 1..Len(conversation.messages) :
          (/\ conversation.messages[i].sender = "user"
           /\ \A j \in (i + 1)..Len(conversation.messages) :
                conversation.messages[j].sender # "user")
            => Strip(conversation.messages[i].text) = <<>>

NoLast == [op |-> "init", session_id |-> "", status |-> 0, success |-> FALSE,
           called |-> FALSE, reply |-> "none", prepass |-> "none",
           questions_asked_count |-> 0, record_in |-> EmptyDict, agent |-> NoAgent,
           dispatched |-> FALSE, report |-> NoReport, messages |-> <<>>,
           dispatch |-> NoDispatch, given |-> NoConversation, empty_input |-> FALSE,
           received |-> NoReceived, response |-> NoResponse, evicted |-> FALSE]

NoHarness == [fn |-> "none"]

Live(session_id) == session_id \in DOMAIN conversation_states

\* the dispatch counter of the life the request works on
CountOfLife(session_id) == IF Live(session_id) THEN dispatch_count[session_id] ELSE 0

\* the request meets a session id that was stored before and is not any more
Evicted(session_id) == session_id \in registered /\ ~Live(session_id)

\* the transcript turns counted for the history the request works on: none
\* for a session it creates or whose history it replaces by its messages
TurnsSoFar(session_id, request) ==
  IF Live(session_id) /\ request.messages = <<>> THEN transcript_turns[session_id] ELSE 0

\* ---------------------------------------------------------------- Init
NoEnv == NoCreds

Init ==
  /\ conversation_states = [s \in {} |-> NewState]
  /\ openai_key \in BOOLEAN
  /\ jira_env \in {NoEnv, GoodCreds}
  /\ jira_globals = NoCreds
  /\ dispatch_count = [s \in Sessions |-> 0]
  /\ registered = {}
  /\ transcript_turns = [s \in Sessions |-> 0]
  /\ last = NoLast
  /\ h = NoHarness

\* ---------------------------------------------------------------- POST /bug-report-chat
\* HTTP 400: no user message, no conversation at all, or an empty utterance
ChatRejected(session_id, request) ==
  /\ Rejected(request)
  /\ last' = [NoLast EXCEPT !.op = "chat", !.session_id = session_id, !.status = 400,
                            !.empty_input = EmptyInput(Given(request))]
  /\ UNCHANGED <<conversation_states, openai_key, jira_env, jira_globals, dispatch_count,
               registered, transcript_turns, h>>

\* HTTP 500 "OpenAI client not configured", after the session was created and
\* its history updated
ChatNoClient(session_id, request) ==
  /\ ~Rejected(request)
  /\ ~openai_key
  /\ LET state == StateOf(conversation_states, session_id)
         before == StateForCall(request, state, NoCall, FALSE)
     IN /\ Len(before.conversation_history) <= MaxHist
        /\ conversation_states' = Put(conversation_states, session_id, before)
        /\ last' = [NoLast EXCEPT !.op = "chat", !.session_id = session_id, !.status = 500,
                                  !.messages = request.messages,
                                  !.given = Given(request),
                                  !.empty_input = EmptyInput(Given(request)),
                                  !.evicted = Evicted(session_id)]
  /\ dispatch_count' = [dispatch_count EXCEPT ![session_id] = CountOfLife(session_id)]
  /\ registered' = registered \cup {session_id}
  /\ transcript_turns' = [transcript_turns EXCEPT ![session_id] =
                           TurnsSoFar(session_id, request)]
  /\ UNCHANGED <<openai_key, jira_env, jira_globals, h>>

\* the capability's answers a request can meet: one for the extra call when it
\* is made, one for the main call
PrePassCapabilities(request, capabilities) ==
  IF PrePassRuns(request, TRUE) THEN capabilities ELSE {NoCall}

\* what the turn computes before the completion test
TurnLast(session_id, request, state, before, prepass, capability, agent_response) ==
  [NoLast EXCEPT !.op = "chat", !.session_id = session_id, !.status = 200,
                 !.called = TRUE, !.reply = ReplyClass(capability),
                 !.prepass = IF prepass.kind = "none" THEN "none" ELSE ReplyClass(prepass),
                 !.questions_asked_count = QuestionsAskedCount(before.conversation_history),
                 !.record_in = before.collected_info,
                 !.agent = agent_response,
                 !.messages = request.messages,
                 !.given = Given(request),
                 !.empty_input = EmptyInput(Given(request)),
                 !.response = TurnResponse(AfterTurn(before, agent_response)),
                 !.evicted = Evicted(session_id)]

\* the mutant dedents the del: every turn removes the session
EvictAlways(store, session_id, is_complete) == Del(store, session_id)

\* if state['is_complete']: ... del conversation_states[session_id]
KeepOrEvict(store, session_id, is_complete) ==
  IF Truthy(is_complete) THEN Del(store, session_id) ELSE store

\* the state after the turn: the agent is called on the state the client
\* check saw, and its answer is written back
TurnAgent(before, capability) ==
  generate_bug_report_conversation(before.conversation_history, before.collected_info,
                                   capability, TRUE)

\* a turn whose answer is not complete: the state is written back and kept
ChatTurn(session_id, request, prepass, capability) ==
  /\ ~Rejected(request)
  /\ openai_key
  /\ \E state \in {StateOf(conversation_states, session_id)} :
     \E before \in {StateForCall(request, state, prepass, TRUE)} :
       /\ Len(before.conversation_history) < MaxHist
       /\ \E agent_response \in {TurnAgent(before, capability)} :
            /\ ~Truthy(agent_response.is_complete)
            /\ conversation_states' =
                 KeepOrEvict(Put(conversation_states, session_id,
                                 AfterTurn(before, agent_response)),
                             session_id, agent_response.is_complete)
            /\ last' = TurnLast(session_id, request, state, before, prepass, capability,
                                agent_response)
  /\ dispatch_count' = [dispatch_count EXCEPT ![session_id] = CountOfLife(session_id)]
  /\ registered' = registered \cup {session_id}
  /\ transcript_turns' = [transcript_turns EXCEPT ![session_id] =
                           TurnsSoFar(session_id, request)
                             + (IF request.messages = <<>> THEN 1 ELSE 0)]
  /\ UNCHANGED <<openai_key, jira_env, jira_globals, h>>

\* the dispatch of a completing turn
Dispatch(request, after, collaborators) ==
  process_bug_report(after.collected_info, FullTranscript(after.conversation_history),
                     request.console_logs, request.screen_recording,
                     ResolveCredentials(request, jira_env),
                     HasCredentials(ResolveCredentials(request, jira_env)),
                     jira_env, jira_globals, collaborators)

\* a completing turn: the dispatcher returns and the session is removed
ChatComplete(session_id, conversation, prepass, capability) ==
  /\ ~Rejected(conversation)
  /\ openai_key
  /\ CountOfLife(session_id) < MaxDispatch
  /\ \E state \in {StateOf(conversation_states, session_id)} :
     \E before \in {StateForCall(conversation, state, prepass, TRUE)} :
       /\ Len(before.conversation_history) < MaxHist
       /\ \E agent_response \in {TurnAgent(before, capability)} :
            /\ Truthy(agent_response.is_complete)
            /\ \E extras \in Extras, collaborators \in Collaborators :
               \E request \in {Request(conversation, extras)} :
               \E after \in {AfterTurn(before, agent_response)} :
               \E process_result \in {Dispatch(request, after, collaborators)} :
                 /\ ~process_result.raised
                 /\ conversation_states' =
                      KeepOrEvict(Put(conversation_states, session_id, after),
                                  session_id, after.is_complete)
                 /\ jira_globals' = process_result.globals
                 /\ last' = [TurnLast(session_id, request, state, before, prepass,
                                      capability, agent_response)
                               EXCEPT !.dispatched = TRUE,
                                      !.dispatch = DispatchGiven(request, jira_env,
                                                                 collaborators),
                                      !.received = Received(after),
                                      !.response = CompleteResponse(after, process_result),
                                      !.report = [raised |-> FALSE,
                                                  s3_urls |-> process_result.s3_urls,
                                                  has_ticket |-> process_result.has_ticket,
                                                  jira_ticket |-> process_result.jira_ticket]]
  /\ dispatch_count' = [dispatch_count EXCEPT ![session_id] = CountOfLife(session_id) + 1]
  /\ registered' = registered \cup {session_id}
  /\ transcript_turns' = [transcript_turns EXCEPT ![session_id] = 0]
  /\ UNCHANGED <<openai_key, jira_env, h>>

\* a completing turn whose dispatch raises: HTTP 500 from the handler's
\* `except Exception`, reached before `del conversation_states[session_id]`
ChatDispatchFails(session_id, conversation, prepass, capability) ==
  /\ ~Rejected(conversation)
  /\ openai_key
  /\ CountOfLife(session_id) < MaxDispatch
  /\ \E state \in {StateOf(conversation_states, session_id)} :
     \E before \in {StateForCall(conversation, state, prepass, TRUE)} :
       /\ Len(before.conversation_history) < MaxHist
       /\ \E agent_response \in {TurnAgent(before, capability)} :
            /\ Truthy(agent_response.is_complete)
            /\ \E extras \in Extras, collaborators \in Collaborators :
               \E request \in {Request(conversation, extras)} :
               \E after \in {AfterTurn(before, agent_response)} :
               \E process_result \in {Dispatch(request, after, collaborators)} :
                 /\ process_result.raised
                 /\ conversation_states' = Put(conversation_states, session_id, after)
                 /\ jira_globals' = process_result.globals
                 /\ last' = [TurnLast(session_id, request, state, before, prepass,
                                      capability, agent_response)
                               EXCEPT !.status = 500, !.dispatched = TRUE,
                                      !.dispatch = DispatchGiven(request, jira_env,
                                                                 collaborators),
                                      !.received = Received(after),
                                      !.response = NoResponse,
                                      !.report = [NoReport EXCEPT !.raised = TRUE]]
  /\ dispatch_count' = [dispatch_count EXCEPT ![session_id] = CountOfLife(session_id) + 1]
  /\ registered' = registered \cup {session_id}
  /\ transcript_turns' = [transcript_turns EXCEPT ![session_id] =
                           TurnsSoFar(session_id, conversation)]
  /\ UNCHANGED <<openai_key, jira_env, h>>

\* ---------------------------------------------------------------- POST /bug-report-chat/reset
\* the mutant reports success whether or not the session is stored
ResetAlwaysSucceeds(store, session_id) == TRUE

\* if session_id in conversation_states: ... success True, else success False
ResetSuccess(store, session_id) == session_id \in DOMAIN store

reset_bug_report_session(session_id) ==
  /\ conversation_states' = Del(conversation_states, session_id)
  /\ last' = [NoLast EXCEPT !.op = "reset", !.session_id = session_id, !.status = 200,
                            !.success = ResetSuccess(conversation_states, session_id)]
  /\ transcript_turns' = [transcript_turns EXCEPT ![session_id] = 0]
  /\ UNCHANGED <<openai_key, jira_env, jira_globals, dispatch_count, registered, h>>

\* ---------------------------------------------------------------- the program
\* the requests of the sessions of S, with conversations and capability
\* answers drawn from the given sets
NextOf(S, conversations, capabilities) ==
  \/ \E session_id \in S, conversation \in conversations :
       ChatRejected(session_id, Plain(conversation))
  \/ \E session_id \in S, conversation \in conversations :
       ChatNoClient(session_id, Plain(conversation))
  \/ \E session_id \in S, conversation \in conversations, capability \in capabilities :
       \E prepass \in PrePassCapabilities(conversation, capabilities) :
         ChatTurn(session_id, Plain(conversation), prepass, capability)
  \/ \E session_id \in S, conversation \in conversations, capability \in capabilities :
       \E prepass \in PrePassCapabilities(conversation, capabilities) :
         ChatComplete(session_id, conversation, prepass, capability)
  \/ \E session_id \in S, conversation \in conversations, capability \in capabilities :
       \E prepass \in PrePassCapabilities(conversation, capabilities) :
         ChatDispatchFails(session_id, conversation, prepass, capability)
  \/ \E session_id \in S : reset_bug_report_session(session_id)

\* one session, both request formats
Next == NextOf(OneSession, Conversations, Capabilities)

Spec == Init /\ [][Next]_vars

\* two sessions in the legacy format: an utterance or none, answered by
\* prose, a question or a complete report
LegacyConversations == { [messages |-> <<>>, transcript |-> t] : t \in {<<>>, <<" ", "h">>} }
FewCapabilities ==
  { Text(<<"x">>),
    Text(<<"FENCE", "json", "{", "B_ask", "}", "FENCE">>),
    Text(<<"x", "{", "B_done", "}", "x">>) }

NextTwo == NextOf(Sessions, LegacyConversations, FewCapabilities)

SpecTwo == Init /\ [][NextTwo]_vars

\* ---------------------------------------------------------------- the merge on its own
SchemaKeys == <<"title", "description", "steps_to_reproduce", "expected_behavior",
                "actual_behavior", "severity", "environment", "additional_notes", "label">>

MergeKeys == {SchemaKeys[i] : i \in 1..NumKeys}

\* field values: empty, whitespace, two texts, null and a number
FieldTexts == {<<>>, <<" ">>, <<"a">>, <<"b">>}
ExistingValues == {JStr(t) : t \in FieldTexts} \cup {JNull}
IncomingValues == {JStr(t) : t \in FieldTexts} \cup {JNull, JNum}

RecordsOver(keys, values) == UNION {[ks -> values] : ks \in SUBSET keys}

\* the program's variables while a function is applied on its own
Idle ==
  /\ conversation_states = [s \in {} |-> NewState]
  /\ openai_key = TRUE
  /\ jira_env = NoEnv
  /\ jira_globals = NoCreds
  /\ dispatch_count = [s \in Sessions |-> 0]
  /\ registered = {}
  /\ transcript_turns = [s \in Sessions |-> 0]
  /\ last = NoLast

InitMerge ==
  /\ Idle
  /\ h \in {[fn |-> "merge", existing |-> r1, incoming |-> r2, steps |-> 0,
             once |-> EmptyDict, twice |-> EmptyDict] :
              r1 \in RecordsOver(MergeKeys, ExistingValues),
              r2 \in RecordsOver(MergeKeys, IncomingValues)}

\* merge(existing, incoming)
ApplyMerge ==
  /\ h.fn = "merge" /\ h.steps = 0
  /\ h' = [h EXCEPT !.steps = 1, !.once = MergedRecord(h.existing, h.incoming)]
  /\ UNCHANGED <<conversation_states, openai_key, jira_env, jira_globals, dispatch_count,
               registered, transcript_turns, last>>

\* merge(merge(existing, incoming), incoming)
ApplyMergeAgain ==
  /\ h.fn = "merge" /\ h.steps = 1
  /\ h' = [h EXCEPT !.steps = 2, !.twice = MergedRecord(h.once, h.incoming)]
  /\ UNCHANGED <<conversation_states, openai_key, jira_env, jira_globals, dispatch_count,
               registered, transcript_turns, last>>

NextMerge == ApplyMerge \/ ApplyMergeAgain

SpecMerge == InitMerge /\ [][NextMerge]_vars

\* ---------------------------------------------------------------- properties
\* a value that is absent in effect: empty, whitespace only, or null
IsBlank(v) == \/ v.kind = "null"
              \/ v.kind = "str" /\ \A i \in 1..Len(v.val) : v.val[i] = " "

\* r2 keeps every key of r1 and every non-blank value stays non-blank
Keeps(r1, r2) ==
  /\ DOMAIN r1 \subseteq DOMAIN r2
  /\ \A k \in DOMAIN r1 : ~IsBlank(r1[k]) => ~IsBlank(r2[k])

\* C5: merge(R1, R2) contains every key of R1, and a key whose value in R1 is
\* non-blank never ends up with a blank value; applying the merge again on
\* the result (the next turn of the session) keeps them as well.
C5_MergeKeeps ==
  /\ h.fn = "merge" /\ h.steps >= 1 => Keeps(h.existing, h.once)
  /\ h.fn = "merge" /\ h.steps = 2 => Keeps(h.once, h.twice) /\ Keeps(h.existing, h.twice)

\* a blank incoming value met a non-blank stored value and the merge was applied
C5_Witness ==
  /\ h.fn = "merge" /\ h.steps = 2
  /\ \E k \in DOMAIN h.existing \cap DOMAIN h.incoming :
       ~IsBlank(h.existing[k]) /\ IsBlank(h.incoming[k])
  /\ \E k \in DOMAIN h.incoming : ~IsBlank(h.incoming[k])

\* C6: merge is idempotent: merge(merge(R1, R2), R2) = merge(R1, R2).
C6_MergeIdempotent == h.fn = "merge" /\ h.steps = 2 => h.twice = h.once

\* the merge was applied twice and its first application changed the record
C6_Witness == h.fn = "merge" /\ h.steps = 2 /\ h.once # h.existing /\ ~MergeRaises(h.incoming)

\* C7 as stated: the key set of merge(existing, incoming) is the union of the
\* key sets of existing and incoming, blank incoming keys included.
C7_KeysAreUnion ==
  h.fn = "merge" /\ h.steps >= 1 /\ ~MergeRaises(h.incoming)
    => DOMAIN h.once = DOMAIN h.existing \cup DOMAIN h.incoming

\* C7 amended: the key set of merge(existing, incoming) is the key set of
\* existing together with the keys of incoming whose value is non-blank; a key
\* of incoming that is blank and absent from existing is not added.
C7_KeysAreUnionOfNonBlank ==
  h.fn = "merge" /\ h.steps >= 1 /\ ~MergeRaises(h.incoming)
    => /\ \A k \in DOMAIN h.once : k \in DOMAIN h.existing \/ k \in DOMAIN h.incoming
       /\ \A k \in DOMAIN h.existing : k \in DOMAIN h.once
       /\ \A k \in DOMAIN h.incoming \ DOMAIN h.existing :
            k \in DOMAIN h.once <=> ~IsBlank(h.incoming[k])

\* the merge met a blank incoming key the record lacks, and a non-blank one
C7_Witness ==
  /\ h.fn = "merge" /\ h.steps >= 1 /\ ~MergeRaises(h.incoming)
  /\ \E k \in DOMAIN h.incoming \ DOMAIN h.existing : IsBlank(h.incoming[k])
  /\ \E k \in DOMAIN h.incoming \ DOMAIN h.existing : ~IsBlank(h.incoming[k])

\* ---------------------------------------------------------------- the session's life
FlagOf(store, session_id) == Truthy(store[session_id].is_complete)

\* C1: the stored completion flag of a session never changes from true to
\* false: a session that is stored with its flag true before a request and is
\* still stored after it has its flag true.
C1_FlagNeverReverts ==
  [][\A s \in Sessions :
       (s \in DOMAIN conversation_states /\ s \in DOMAIN conversation_states'
        /\ FlagOf(conversation_states, s))
         => FlagOf(conversation_states', s)]_vars

\* C2: between requests no session in the store has its completion flag true.
C2_NoCompleteSessionStored ==
  \A s \in DOMAIN conversation_states : ~FlagOf(conversation_states, s)

\* C3: in the life of one session the dispatcher is invoked at most once,
\* and only on a turn whose result has is_complete true.
C3_DispatchedOnce ==
  /\ \A s \in Sessions : dispatch_count[s] <= 1
  /\ last.dispatched => Truthy(last.agent.is_complete)

\* C4: a session leaves the store only by a reset request for its own id or
\* by a turn of its own whose result is complete; after a turn whose result
\* is not complete the session is stored with the record the turn returned.
C4_KeptUntilReset ==
  [][/\ \A s \in Sessions :
          (s \in DOMAIN conversation_states /\ s \notin DOMAIN conversation_states')
            => /\ last'.session_id = s
               /\ \/ last'.op = "reset"
                  \/ last'.op = "chat" /\ Truthy(last'.agent.is_complete)
     /\ (last'.op = "chat" /\ last'.called /\ ~Truthy(last'.agent.is_complete))
          => /\ last'.session_id \in DOMAIN conversation_states'
             /\ conversation_states'[last'.session_id].collected_info
                  = last'.agent.bug_report_data
             /\ \A k \in DOMAIN StateOf(conversation_states, last'.session_id).collected_info :
                  k \in DOMAIN conversation_states'[last'.session_id].collected_info]_vars

\* a second turn of a session was not complete while the other session is
\* stored as well, and the session holds a record
C4_Witness ==
  /\ last.op = "chat" /\ last.called /\ ~Truthy(last.agent.is_complete)
  /\ DOMAIN conversation_states = Sessions
  /\ Len(conversation_states[last.session_id].conversation_history) >= 4
  /\ DOMAIN conversation_states[last.session_id].collected_info # {}

\* ---------------------------------------------------------------- soft failures
\* the result every soft failure shares: the record it was given, not
\* complete, no questions, nothing raised
SoftResult(agent_response, record) ==
  /\ ~agent_response.raised
  /\ agent_response.bug_report_data = record
  /\ agent_response.is_complete = JFalse
  /\ agent_response.questions_to_ask = <<>>

\* the session is stored with this record, flag false
StoredIn(store, session_id, record) ==
  /\ session_id \in DOMAIN store
  /\ store[session_id].collected_info = record
  /\ ~FlagOf(store, session_id)

StoredWith(record) == StoredIn(conversation_states, last.session_id, record)

RecordUntouched ==
  last'.prepass # "ok"
    => conversation_states'[last'.session_id].collected_info
         = StateOf(conversation_states, last'.session_id).collected_info

C10_BudgetNeverNegative ==
  last.op = "chat" /\ last.called
    => last.questions_asked_count <= 2 /\ 2 - last.questions_asked_count >= 0

\* ---------------------------------------------------------------- completion rule
\* every required field of the record holds a non-blank value
AllRequiredFilled(record) ==
  \A i \in 1..Len(RequiredFields) :
    RequiredFields[i] \in DOMAIN record /\ ~IsBlank(record[RequiredFields[i]])

IsPrefix(s, t) == Len(s) <= Len(t) /\ SubSeq(t, 1, Len(s)) = s

\* C12 as stated: for every request that leaves a stored session stored, the
\* history stored before is a prefix of the history stored after, in both
\* request formats.
C12_HistoryAppendOnly ==
  [][\A s \in Sessions :
       (s \in DOMAIN conversation_states /\ s \in DOMAIN conversation_states')
         => IsPrefix(conversation_states[s].conversation_history,
                     conversation_states'[s].conversation_history)]_vars

\* C12 amended: a transcript request appends to the stored history, so the
\* history stored before it is a prefix of the history stored after it; a
\* messages request replaces the stored history by the messages it carries,
\* followed by the assistant's reply when the turn ran.
C12_AppendOnlyByTranscript ==
  [][/\ \A s \in Sessions :
          (/\ s \in DOMAIN conversation_states /\ s \in DOMAIN conversation_states'
           /\ ~(last'.op = "chat" /\ last'.session_id = s /\ last'.messages # <<>>))
            => IsPrefix(conversation_states[s].conversation_history,
                        conversation_states'[s].conversation_history)
     /\ (/\ last'.op = "chat" /\ last'.messages # <<>>
         /\ last'.session_id \in DOMAIN conversation_states')
          => conversation_states'[last'.session_id].conversation_history
               = ToHistory(last'.messages) \o
                   (IF last'.called
                    THEN <<[role |-> "assistant", content |-> last'.agent.user_response]>>
                    ELSE <<>>)]_vars

\* a transcript turn extended the history of a session that had one, and the
\* session is still stored
C12_Witness ==
  /\ last.op = "chat" /\ last.called /\ last.messages = <<>>
  /\ last.session_id \in DOMAIN conversation_states
  /\ Len(conversation_states[last.session_id].conversation_history) >= 4

\* ---------------------------------------------------------------- reset
\* C13 as stated: after a reset the session is not stored, and the reset
\* reports success=false only for an id that was never put in the store.
C13_ResetFailsOnlyIfNeverRegistered ==
  last.op = "reset"
    => /\ last.session_id \notin DOMAIN conversation_states
       /\ ~last.success => last.session_id \notin registered

\* C13 amended: after a reset the session is not stored, nothing else
\* changes, and the reset reports success exactly when the session was stored
\* when the request arrived: an id that was never stored, or was evicted
\* before, reports success=false.
C13_ResetSucceedsIffStored ==
  [][last'.op = "reset"
       => /\ last'.session_id \notin DOMAIN conversation_states'
          /\ last'.success = (last'.session_id \in DOMAIN conversation_states)
          /\ \A s \in Sessions \ {last'.session_id} :
               /\ (s \in DOMAIN conversation_states') = (s \in DOMAIN conversation_states)
               /\ s \in DOMAIN conversation_states
                    => conversation_states'[s] = conversation_states[s]]_vars

\* a reset of an id that had been stored and evicted reported failure
C13_Witness ==
  /\ last.op = "reset" /\ ~last.success
  /\ last.session_id \in registered

\* ---------------------------------------------------------------- missing fields on their own
\* values of a required field: empty, whitespace, a text, null and a number
RequiredValues == {JStr(<<>>), JStr(<<" ">>), JStr(<<"a">>), JNull, JNum}

RequiredKeys == {RequiredFields[i] : i \in 1..Len(RequiredFields)}

InitMissing ==
  /\ Idle
  /\ h \in {[fn |-> "missing", record |-> r, steps |-> 0, missing |-> <<>>] :
              r \in RecordsOver(RequiredKeys, RequiredValues)}

\* _get_missing_fields(record)
ApplyMissing ==
  /\ h.fn = "missing" /\ h.steps = 0
  /\ h' = [h EXCEPT !.steps = 1, !.missing = _get_missing_fields(h.record)]
  /\ UNCHANGED <<conversation_states, openai_key, jira_env, jira_globals, dispatch_count,
               registered, transcript_turns, last>>

NextMissing == ApplyMissing

SpecMissing == InitMissing /\ [][NextMissing]_vars

\* the required fields of a record that are absent or blank, in schema order
AbsentOrBlank(record) ==
  SelectSeq(RequiredFields, LAMBDA f : f \notin DOMAIN record \/ IsBlank(record[f]))

\* C14: missing_fields returns the labels of exactly the required fields that
\* are absent, empty or whitespace-only, each once and in schema order: all
\* five for an empty record, none when all five are non-blank.
C14_MissingFieldsExact ==
  h.fn = "missing" /\ h.steps = 1
    => /\ Len(h.missing) = Len(AbsentOrBlank(h.record))
       /\ \A i \in 1..Len(h.missing) : h.missing[i] = DisplayName[AbsentOrBlank(h.record)[i]]
       /\ h.record = EmptyDict
            => h.missing = [i \in 1..Len(RequiredFields) |-> DisplayName[RequiredFields[i]]]
       /\ AllRequiredFilled(h.record) => h.missing = <<>>

\* a record with an absent, a whitespace-only and a filled required field
C14_Witness ==
  /\ h.fn = "missing" /\ h.steps = 1
  /\ "title" \notin DOMAIN h.record
  /\ "description" \in DOMAIN h.record /\ h.record["description"] = JStr(<<" ">>)
  /\ "actual_behavior" \in DOMAIN h.record /\ h.record["actual_behavior"] = JStr(<<"a">>)
  /\ h.missing # <<>> /\ Len(h.missing) < Len(RequiredFields)

\* ---------------------------------------------------------------- question formatting on its own
\* the questions the capability returns: bare, numbered with and without a
\* space, a word that starts with Q before a colon, padded, with a colon inside
QuestionTexts ==
  { <<"w">>,
    <<"Q", "1", ":", " ", "w">>,
    <<"Q", "2", ":", " ", "w">>,
    <<"Q", "1", ":", "w">>,
    <<"Q", "u", ":", " ", "w">>,
    <<" ", "w", " ">>,
    <<"Q", "7", " ", "w", ":", "x">>,
    <<"w", ":", "x">> }

QuestionLists == UNION {[1..n -> QuestionTexts] : n \in 0..MaxQuestions}

InitQuestions ==
  /\ Idle
  /\ h \in {[fn |-> "questions", questions_to_ask |-> q, steps |-> 0,
             formatted_questions |-> <<>>] : q \in QuestionLists}

\* the formatting loop of the turn
ApplyFormat ==
  /\ h.fn = "questions" /\ h.steps = 0
  /\ h' = [h EXCEPT !.steps = 1, !.formatted_questions = FormatQuestions(h.questions_to_ask)]
  /\ UNCHANGED <<conversation_states, openai_key, jira_env, jira_globals, dispatch_count,
               registered, transcript_turns, last>>

NextQuestions == ApplyFormat

SpecQuestions == InitQuestions /\ [][NextQuestions]_vars

IsDigit(c) == c \in {"0", "1", "2", "3", "4", "5", "6", "7", "8", "9"}

\* the text has a leading "Q<n>:" prefix
HasNumberPrefix(t) == Len(t) >= 3 /\ t[1] = "Q" /\ IsDigit(t[2]) /\ t[3] = ":"

\* the text with only a leading "Q<n>:" prefix removed
WithoutNumberPrefix(t) == IF HasNumberPrefix(t) THEN SubSeq(t, 4, Len(t)) ELSE t

\* C15: n questions give n entries, entry i being "Q{i}: {text}" where {text}
\* is the i-th question's text with only a leading "Q<n>:" prefix removed
\* (surrounding whitespace aside).
C15_RenumberedKeepingText ==
  h.fn = "questions" /\ h.steps = 1
    => /\ Len(h.formatted_questions) = Len(h.questions_to_ask)
       /\ \A i \in 1..Len(h.questions_to_ask) :
            /\ StartsWith(h.formatted_questions[i], <<"Q", Digit(i), ":">>)
            /\ Strip(SubSeq(h.formatted_questions[i], 4, Len(h.formatted_questions[i])))
                 = Strip(WithoutNumberPrefix(Strip(h.questions_to_ask[i])))

\* ---------------------------------------------------------------- the dispatch of a complete report
\* the attachments a dispatch was given: the transcript always, the logs and
\* the recording when the request carried them
Supplied(dispatch) ==
  {"transcription"}
    \cup (IF dispatch.console_logs # <<>> THEN {"console_logs"} ELSE {})
    \cup (IF dispatch.screen_recording # <<>> THEN {"screen_recording"} ELSE {})

\* every supplied attachment was attempted: it has a location, null exactly
\* when its upload failed, or it is a recording file that could not be read
Archived(s3_urls, dispatch) ==
  /\ DOMAIN s3_urls \subseteq Supplied(dispatch)
  /\ \A a \in Supplied(dispatch) :
       \/ a \in DOMAIN s3_urls /\ (s3_urls[a] # <<>>) = (a \in dispatch.uploaded)
       \/ /\ a = "screen_recording" /\ dispatch.screen_recording = <<"path">>
          /\ ~dispatch.file_ok /\ a \notin DOMAIN s3_urls

\* the session of the last request completed: flag true, evicted
Terminal ==
  /\ Truthy(last.agent.is_complete)
  /\ last.session_id \notin DOMAIN conversation_states

\* C16: a dispatch without ticket credentials, in the request or in the
\* environment, succeeds with no ticket, attempts the archival of the
\* transcript, the logs and the recording, and the session is evicted.
C16_NoCredentialsStillCompletes ==
  last.dispatched /\ ~last.dispatch.has_credentials
    => /\ last.status = 200 /\ ~last.report.raised
       /\ ~last.report.has_ticket
       /\ Archived(last.report.s3_urls, last.dispatch)
       /\ Terminal

\* a report with logs and a recording was dispatched without credentials, and
\* an upload failed
C16_Witness ==
  /\ last.dispatched /\ ~last.dispatch.has_credentials
  /\ last.dispatch.console_logs # <<>> /\ last.dispatch.screen_recording # <<>>
  /\ "transcription" \notin last.dispatch.uploaded
  /\ last.status = 200

\* C17: when credentials are given and no ticket is created, the dispatch
\* returns a result whose ticket carries an error description and no
\* reference, the archival results are returned as obtained, the response is
\* a success and the session is evicted.
C17_TicketFailureReported ==
  (/\ last.dispatched /\ last.dispatch.has_credentials
   /\ ~(last.report.has_ticket /\ last.report.jira_ticket.success))
    => /\ ~last.report.raised /\ last.status = 200
       /\ last.report.has_ticket /\ last.report.jira_ticket.error # <<>>
       /\ Archived(last.report.s3_urls, last.dispatch)
       /\ Terminal

\* ---------------------------------------------------------------- the dispatcher on its own
Attachments == {"transcription", "console_logs", "screen_recording"}

\* a dispatch: the attachments given, the credentials given, and what the
\* storage and ticket services answer
InitDispatch ==
  /\ Idle
  /\ h \in {[fn |-> "dispatch", transcript |-> t, console_logs |-> l, screen_recording |-> r,
             uploaded |-> u, file_ok |-> f, jira |-> c, remote |-> m, steps |-> 0,
             result |-> NoReport] :
              t \in {<<>>, <<"t">>}, l \in {<<>>, <<"l">>},
              r \in {<<>>, <<"data">>, <<"path">>}, u \in SUBSET Attachments,
              f \in BOOLEAN, c \in {NoCreds, GoodCreds, NonAsciiCreds},
              m \in {"created", "rejected"}}

\* process_bug_report(...)
ApplyDispatch ==
  /\ h.fn = "dispatch" /\ h.steps = 0
  /\ \E process_result \in
          {process_bug_report([description |-> JStr(<<"b">>)], h.transcript, h.console_logs,
                              h.screen_recording, h.jira, HasCredentials(h.jira),
                              NoEnv, NoCreds, [uploaded |-> h.uploaded, file_ok |-> h.file_ok,
                                               remote |-> h.remote])} :
       h' = [h EXCEPT !.steps = 1,
                      !.result = [raised |-> process_result.raised,
                                  s3_urls |-> process_result.s3_urls,
                                  has_ticket |-> process_result.has_ticket,
                                  jira_ticket |-> process_result.jira_ticket]]
  /\ UNCHANGED <<conversation_states, openai_key, jira_env, jira_globals, dispatch_count,
               registered, transcript_turns, last>>

NextDispatch == ApplyDispatch

SpecDispatch == InitDispatch /\ [][NextDispatch]_vars

\* the input of an attachment
InputOf(a) ==
  CASE a = "transcription" -> h.transcript
    [] a = "console_logs" -> h.console_logs
    [] a = "screen_recording" -> h.screen_recording

\* C18: every supplied attachment is attempted whatever happens to the
\* others: its location is null exactly when its own upload fails (a
\* recording file that cannot be read has no location at all), nothing else
\* has a location, and the ticket step is taken exactly when credentials are
\* given, and creates the ticket when the remote accepts.
C18_UploadsIndependent ==
  h.fn = "dispatch" /\ h.steps = 1
    => /\ \A a \in Attachments :
            IF InputOf(a) = <<>> \/ (a = "screen_recording" /\ InputOf(a) = <<"path">>
                                     /\ ~h.file_ok)
            THEN a \notin DOMAIN h.result.s3_urls
            ELSE /\ a \in DOMAIN h.result.s3_urls
                 /\ (h.result.s3_urls[a] # <<>>) = (a \in h.uploaded)
       /\ (h.result.has_ticket \/ h.result.raised) = HasCredentials(h.jira)
       /\ (h.jira = GoodCreds /\ h.remote = "created")
            => h.result.has_ticket /\ h.result.jira_ticket.success

\* the transcript's upload failed, the logs and the recording were uploaded
\* and the ticket was created
C18_Witness ==
  /\ h.fn = "dispatch" /\ h.steps = 1
  /\ h.transcript # <<>> /\ h.console_logs # <<>> /\ h.screen_recording = <<"data">>
  /\ h.uploaded = {"console_logs", "screen_recording"}
  /\ h.result.s3_urls["transcription"] = <<>>
  /\ h.result.s3_urls["screen_recording"] # <<>>
  /\ h.result.has_ticket /\ h.result.jira_ticket.success

\* ---------------------------------------------------------------- the issue on its own
UpperChar(c) ==
  IF \E i \in 1..Len(LowerCase) : LowerCase[i] = c
  THEN UpperCase[CHOOSE i \in 1..Len(LowerCase) : LowerCase[i] = c]
  ELSE c

Capitalised(s) == <<UpperChar(s[1])>> \o Tail(s)
AllCapitals(s) == [i \in 1..Len(s) |-> UpperChar(s[i])]

\* the severities of a record: the five names as the prompt writes them, in
\* small letters and in capitals, empty, blank, padded and unknown ones, null,
\* and the JSON values that are no text
SeverityValues ==
  {JStr(n) : n \in SeverityNames}
    \cup {JStr(Capitalised(n)) : n \in SeverityNames}
    \cup {JStr(AllCapitals(n)) : n \in SeverityNames}
    \cup {JStr(<<>>), JStr(<<" ">>), JStr(<<" ">> \o HIGH), JStr(<<"u", "r", "g", "e", "n", "t">>),
          JStr(<<"h", "i", "g", "h", "e", "s", "t">>), JNull, JFalse, JTrue, JNum}

\* marks a key the record does not hold
Absent == [kind |-> "absent", val |-> <<>>]

IssueRecords ==
  { [k \in (IF s = Absent THEN {} ELSE {"severity"})
             \cup (IF t = Absent THEN {} ELSE {"title"})
             \cup (IF y = Absent THEN {} ELSE {"issue_type"}) |->
       CASE k = "severity" -> s [] k = "title" -> t [] k = "issue_type" -> y] :
      s \in SeverityValues \cup {Absent},
      t \in {JStr(<<"a">>), Absent},
      y \in {JStr(<<"T", "a", "s", "k">>), Absent} }

InitIssue ==
  /\ Idle
  /\ h \in {[fn |-> "issue", bug_report_data |-> r, steps |-> 0,
             issue_data |-> IssueData(EmptyDict)] : r \in IssueRecords}

\* the issue_data of create_bug_report_ticket
ApplyIssue ==
  /\ h.fn = "issue" /\ h.steps = 0
  /\ h' = [h EXCEPT !.steps = 1, !.issue_data = IssueData(h.bug_report_data)]
  /\ UNCHANGED <<conversation_states, openai_key, jira_env, jira_globals, dispatch_count,
               registered, transcript_turns, last>>

NextIssue == ApplyIssue

SpecIssue == InitIssue /\ [][NextIssue]_vars

\* the text spells the name, in small or capital letters
Spells(text, name) ==
  /\ Len(text) = Len(name)
  /\ \A i \in 1..Len(name) : text[i] = name[i] \/ text[i] = UpperChar(name[i])

\* the severity of the record is this level
IsLevel(record, name) ==
  /\ "severity" \in DOMAIN record
  /\ record["severity"].kind = "str"
  /\ Spells(record["severity"].val, name)

OthersUntouched(session_id, store, store_after, count, count_after) ==
  \A s \in Sessions \ {session_id} :
    /\ s \in DOMAIN store_after <=> s \in DOMAIN store
    /\ s \in DOMAIN store => store_after[s] = store[s]
    /\ count_after[s] = count[s]

\* the module's credentials when create_issue runs in a dispatch: those of
\* the dispatch's own request and of the environment
CredentialsOf(dispatch, env) ==
  set_jira_credentials(ResolveCredentials([jira |-> dispatch.jira], env), env)

\* a turn works on the stored state of its own session: the record it hands
\* to the agent, the rounds it counts, and the history it extends
OwnStateUsed(own, store_after, result) ==
  /\ result.prepass = "none" => result.record_in = own.collected_info
  /\ result.messages = <<>>
       => /\ result.questions_asked_count = QuestionsAskedCount(own.conversation_history)
          /\ result.session_id \in DOMAIN store_after
               => /\ IsPrefix(own.conversation_history,
                              store_after[result.session_id].conversation_history)
                  /\ Len(store_after[result.session_id].conversation_history)
                       = Len(own.conversation_history) + 2

\* a dispatch with credentials opens its ticket with its own credentials
OwnCredentialsUsed(credentials, globals_after, result) ==
  /\ globals_after = credentials
  /\ result.report.raised = create_issue_raises(credentials)
  /\ ~result.report.raised
       => /\ result.report.has_ticket
          /\ result.report.jira_ticket.success
               = (create_issue(credentials, result.dispatch.remote) = "issue")

\* C20 as stated: a request of one session leaves the other session as it
\* was, works on its own stored state and opens its ticket with its own
\* credentials, and the keyed store is the only state of the program it
\* changes.
C20_StoreOnlySharedState ==
  [][/\ OthersUntouched(last'.session_id, conversation_states, conversation_states',
                        dispatch_count, dispatch_count')
     /\ (last'.op = "chat" /\ last'.called)
          => OwnStateUsed(StateOf(conversation_states, last'.session_id),
                          conversation_states', last')
     /\ (last'.dispatched /\ last'.dispatch.has_credentials)
          => OwnCredentialsUsed(CredentialsOf(last'.dispatch, jira_env), jira_globals', last')
     /\ UNCHANGED <<openai_key, jira_env, jira_globals>>]_vars

\* C20 amended: a request of one session leaves the other session as it was,
\* works on its own stored state, and a dispatch with credentials sets the
\* module's credentials, which the sessions share, to its own before it opens
\* its ticket with them, whatever another session's dispatch left there.
C20_SessionsIndependent ==
  [][/\ OthersUntouched(last'.session_id, conversation_states, conversation_states',
                        dispatch_count, dispatch_count')
     /\ (last'.op = "chat" /\ last'.called)
          => OwnStateUsed(StateOf(conversation_states, last'.session_id),
                          conversation_states', last')
     /\ (last'.dispatched /\ last'.dispatch.has_credentials)
          => OwnCredentialsUsed(CredentialsOf(last'.dispatch, jira_env), jira_globals', last')
     /\ UNCHANGED <<openai_key, jira_env>>]_vars

\* the second session's ticket was opened with its own credentials after a
\* dispatch of the first session, which is still stored with its record, had
\* set others
C20_Witness ==
  /\ last.session_id = "s2" /\ last.dispatched /\ last.dispatch.jira = GoodCreds
  /\ last.report.has_ticket /\ last.report.jira_ticket.success
  /\ jira_globals = GoodCreds
  /\ "s1" \in DOMAIN conversation_states
  /\ dispatch_count["s1"] >= 1
  /\ Truthy(conversation_states["s1"].is_complete)
  /\ DOMAIN conversation_states["s1"].collected_info # {}


\* ---------------------------------------------------------------- rejected requests
\* C21: a turn request whose utterance is empty after trimming, or that
\* carries neither messages nor a transcript, is answered with HTTP 400, the
\* agent is not called, and the store is left as it was.
C21_EmptyInputRejected ==
  [][(last'.op = "chat" /\ last'.empty_input)
       => /\ last'.status = 400
          /\ ~last'.called /\ last'.prepass = "none"
          /\ conversation_states' = conversation_states]_vars

\* a request without an utterance was rejected for a session that is stored
\* with a record
C21_Witness ==
  /\ last.op = "chat" /\ last.status = 400 /\ last.empty_input
  /\ last.session_id \in DOMAIN conversation_states
  /\ DOMAIN conversation_states[last.session_id].collected_info # {}


\* ---------------------------------------------------------------- calls of a turn
\* the request carries more than two messages and, before the last one, a
\* message of the assistant and one of the user
ExtraCallDue(conversation) ==
  /\ Len(conversation.messages) > 2
  /\ \E i \in 1..(Len(conversation.messages) - 1) : conversation.messages[i].sender = "user"
  /\ \E i \in 1..(Len(conversation.messages) - 1) : conversation.messages[i].sender # "user"

\* the record handed to the main call is the stored one with non-blank
\* values set or replaced
FoldedInto(own, record_in) ==
  /\ DOMAIN own \subseteq DOMAIN record_in
  /\ \A k \in DOMAIN record_in :
       (k \notin DOMAIN own \/ record_in[k] # own[k]) => NonBlank(record_in[k])

\* C22 as stated: every turn that is answered calls the capability exactly
\* once, in both request formats and for any history length.
C22_OneCallPerTurn ==
  (last.op = "chat" /\ last.status = 200) => (last.called /\ last.prepass = "none")

\* C22 amended: a turn that is answered calls the capability once and stores
\* the record that call returned, except that a messages request with more
\* than two messages, an assistant and a user message among the earlier ones,
\* makes an extra call first, whose non-blank fields are folded into the
\* stored record before the main call.
C22_CallsPerTurn ==
  [][(last'.op = "chat" /\ last'.status = 200)
       => /\ last'.called
          /\ last'.prepass # "none" <=> ExtraCallDue(last'.given)
          /\ last'.prepass = "none"
               => last'.record_in = StateOf(conversation_states, last'.session_id).collected_info
          /\ FoldedInto(StateOf(conversation_states, last'.session_id).collected_info,
                        last'.record_in)
          /\ last'.session_id \in DOMAIN conversation_states'
               => conversation_states'[last'.session_id].collected_info
                    = last'.agent.bug_report_data]_vars

\* a turn made the extra call, which extracted a field, before the main call
C22_Witness ==
  /\ last.op = "chat" /\ last.status = 200 /\ last.called
  /\ last.prepass = "ok" /\ last.reply = "ok"
  /\ DOMAIN last.record_in # {}
  /\ ExtraCallDue(last.given)


\* ---------------------------------------------------------------- the question count
\* the turn is a transcript turn that reached the agent
TranscriptTurn(result) ==
  result.op = "chat" /\ result.called /\ result.given.messages = <<>>

\* C23: a transcript turn of a session that is not stored sees the count 0,
\* and a transcript turn that follows a transcript turn of the same session
\* sees that turn's count, one more if that turn posed a question and the
\* same if its question list was empty, as for a soft-fail reply.
C23_CountsQuestionTurns ==
  [][TranscriptTurn(last')
       => /\ last'.session_id \notin DOMAIN conversation_states
               => last'.questions_asked_count = 0
          /\ (/\ TranscriptTurn(last) /\ last.session_id = last'.session_id
              /\ last'.session_id \in DOMAIN conversation_states)
               => last'.questions_asked_count
                    = last.questions_asked_count
                        + (IF last.agent.questions_to_ask # <<>> THEN 1 ELSE 0)]_vars


\* ---------------------------------------------------------------- the completing turn
\* the session's messages when the turn ends: the messages of the request, or
\* the stored history and the utterance, followed by the turn's reply
MessagesOfTurn(own, result) ==
  (IF result.given.messages # <<>> THEN ToHistory(result.given.messages)
   ELSE Append(own.conversation_history,
               [role |-> "user", content |-> Strip(result.given.transcript)]))
    \o <<[role |-> "assistant", content |-> result.agent.user_response]>>

\* the response carries the archival locations and the ticket result
CarriesResults(response) == {"s3_urls", "jira_ticket"} \subseteq response.keys

\* C24: on a completing turn the dispatcher receives the record the turn
\* returned and the transcript of the session's messages in order, ending with
\* the turn's reply; the response returns that record with the archival
\* locations and the ticket result, which the response of a turn that is not
\* complete does not hold.
C24_CompletingTurnHandsOver ==
  [][/\ (last'.op = "chat" /\ last'.called /\ Truthy(last'.agent.is_complete))
          => /\ last'.dispatched
             /\ last'.received.bug_report_data = last'.agent.bug_report_data
             /\ last'.received.conversation_transcript
                  = FullTranscript(MessagesOfTurn(
                      StateOf(conversation_states, last'.session_id), last'))
             /\ last'.status = 200
             /\ last'.response.collected_info = last'.agent.bug_report_data
             /\ CarriesResults(last'.response)
             /\ last'.response.s3_urls = last'.report.s3_urls
             /\ last'.response.has_ticket = last'.report.has_ticket
             /\ last'.response.jira_ticket = last'.report.jira_ticket
     /\ (last'.op = "chat" /\ last'.called /\ ~Truthy(last'.agent.is_complete))
          => /\ ~last'.dispatched
             /\ last'.status = 200
             /\ last'.response.keys \cap {"s3_urls", "jira_ticket"} = {}]_vars


\* ---------------------------------------------------------------- the request to the capability
\* `if value and str(value).strip()`: the fields the summary lists
SummaryShows(value) == Truthy(value) /\ (value.kind = "str" => Strip(value.val) # <<>>)

\* _build_collected_info_summary: the non-blank fields of the record
_build_collected_info_summary(collected_info) ==
  [k \in {j \in DOMAIN collected_info : SummaryShows(collected_info[j])} |-> collected_info[k]]

\* _build_conversation_context: "Role: content" of the last ten messages
_build_conversation_context(conversation_history) ==
  LET n == Len(conversation_history)
      recent == SubSeq(conversation_history, IF n > 10 THEN n - 9 ELSE 1, n)
  IN [i \in 1..Len(recent) |->
        <<IF recent[i].role = "user" THEN "User" ELSE "Assistant", recent[i].content>>]

\* the sections of the user prompt sent to the capability
UserPrompt(user_input, conversation_history, collected_info, console_logs) ==
  [user_message |-> user_input,
   current_date |-> <<"today">>,
   conversation_history |-> _build_conversation_context(conversation_history),
   collected_information |-> _build_collected_info_summary(collected_info),
   console_logs |-> console_logs,
   questions_asked |-> QuestionsAskedCount(conversation_history)]

\* the histories a prompt is built from: a first utterance, a second turn
PromptHistories ==
  { <<[role |-> "user", content |-> <<"h">>]>>,
    <<[role |-> "user", content |-> <<"h">>], [role |-> "assistant", content |-> <<"r">>],
      [role |-> "user", content |-> <<"h">>]>> }

InitPrompt ==
  /\ Idle
  /\ h \in {[fn |-> "prompt", collected_info |-> r, conversation_history |-> c, steps |-> 0,
             prompt |-> EmptyDict] :
              r \in RecordsOver(RequiredKeys, RequiredValues), c \in PromptHistories}

\* the prompt generate_bug_report_conversation builds for the turn
ApplyPrompt ==
  /\ h.fn = "prompt" /\ h.steps = 0
  /\ h' = [h EXCEPT !.steps = 1,
                    !.prompt = UserPrompt(<<"h">>, h.conversation_history, h.collected_info,
                                          <<"l">>)]
  /\ UNCHANGED <<conversation_states, openai_key, jira_env, jira_globals, dispatch_count,
               registered, transcript_turns, last>>

NextPrompt == ApplyPrompt

SpecPrompt == InitPrompt /\ [][NextPrompt]_vars

\* C25: the request sent to the capability holds the list of the missing
\* required fields, which is missing_fields of the record the turn was given.
C25_PromptListsMissingFields ==
  h.fn = "prompt" /\ h.steps = 1
    => /\ "missing_fields" \in DOMAIN h.prompt
       /\ h.prompt["missing_fields"] = _get_missing_fields(h.collected_info)


\* ---------------------------------------------------------------- transcript turns
\* user and assistant messages in turn, the user first
Alternates(history) ==
  \A i \in 1..Len(history) :
    history[i].role = (IF i % 2 = 1 THEN "user" ELSE "assistant")

\* an answered turn of the transcript format that is not complete
OpenTranscriptTurn(result) ==
  /\ TranscriptTurn(result) /\ result.status = 200
  /\ ~Truthy(result.agent.is_complete)

\* C26: in the transcript format each answered turn that is not complete
\* appends the utterance and then the reply to the stored history, so that
\* after the n-th such turn the stored history has 2n messages, user and
\* assistant in turn, and that turn saw questions_asked_count = n - 1.
C26_TranscriptTurnsAppendPairs ==
  [][OpenTranscriptTurn(last')
       => /\ last'.session_id \in DOMAIN conversation_states'
          /\ conversation_states'[last'.session_id].conversation_history
               = StateOf(conversation_states, last'.session_id).conversation_history
                   \o <<[role |-> "user", content |-> Strip(last'.given.transcript)],
                        [role |-> "assistant", content |-> last'.agent.user_response]>>
          /\ Len(conversation_states'[last'.session_id].conversation_history)
               = 2 * transcript_turns'[last'.session_id]
          /\ Alternates(conversation_states'[last'.session_id].conversation_history)
          /\ last'.questions_asked_count = transcript_turns'[last'.session_id] - 1]_vars


\* ---------------------------------------------------------------- after eviction
\* the request removed its session from the store: a reset, or a turn that
\* completed and was dispatched
Evicts(result) ==
  \/ result.op = "reset"
  \/ result.op = "chat" /\ result.status = 200 /\ Truthy(result.agent.is_complete)

\* the state a turn leaves for a session it had to create
FreshTurnState(result) ==
  AfterTurn([collected_info |-> result.record_in,
             conversation_history |-> HistoryForCall(result.given, NewState),
             is_complete |-> JFalse],
            result.agent)

\* C27: the turn that follows the eviction of its session (a completed
\* turn or a reset) starts from a new state: the session was not stored, the
\* capability is handed nothing but what the request itself carries (an empty
\* record, unless the extra call on the request's own messages extracted one;
\* a question count taken from the request alone) and what is stored
\* afterwards is built from the request and the reply only.
C27_FreshAfterEviction ==
  [][(Evicts(last) /\ last'.op = "chat" /\ last'.called
        /\ last'.session_id = last.session_id)
       => /\ ~Live(last'.session_id)
          /\ last'.evicted = (last'.session_id \in registered)
          /\ last'.prepass = "none" => last'.record_in = EmptyDict
          /\ \A k \in DOMAIN last'.record_in : NonBlank(last'.record_in[k])
          /\ last'.questions_asked_count
               = QuestionsAskedCount(HistoryForCall(last'.given, NewState))
          /\ last'.session_id \in DOMAIN conversation_states'
               => conversation_states'[last'.session_id] = FreshTurnState(last')]_vars

\* a turn on an evicted session whose earlier life had collected fields
C27_Witness ==
  /\ last.op = "chat" /\ last.called /\ last.evicted
  /\ last.given.messages = <<>>
  /\ last.record_in = EmptyDict /\ last.questions_asked_count = 0
  /\ last.session_id \in DOMAIN conversation_states
  /\ Len(conversation_states[last.session_id].conversation_history) = 2


\* ---------------------------------------------------------------- error responses
\* the turn was answered with an error status
ErrorResponse(result) == result.op = "chat" /\ result.status # 200

\* C28: a turn that is answered with an error (400 for an empty input, 500
\* for a missing extraction client or an exception inside the handler)
\* leaves the store as it was: no session created, no state changed.
C28_ErrorLeavesStore ==
  [][ErrorResponse(last') => conversation_states' = conversation_states]_vars

====
